---- MODULE Spec2Model ----
(***************************************************************************)
(* Model of the gnow client (src/gnow.go): the four handles Connection,    *)
(* Result, Cursor and Row, and the resources they own in the nowdb C       *)
(* library.  Every Go method is one action; the C library is the           *)
(* collaborator, whose replies are chosen nondeterministically.            *)
(***************************************************************************)
EXTENDS Integers, Sequences, FiniteSets, TLC

\* ------------------------------------------------------------------ bounds
NConns == 1
MaxResults == 1
MaxCursors == 1
MaxRows == 1
MaxFields == 1
MaxPayload == 1
NThreads == 2

\* ------------------------------------------------------- program constants
OK == 0
_eof == 8
NOK == 78
nothing == 0
status == 33
report == 34
row == 35
cursor == 36
NIL == 0
NOTHING == 0
TEXT == 1
DATE == 2
TIME == 3
FLOAT == 4
INT == 5
UINT == 6
BOOL == 9
\* a type indicator the client does not know
UNKNOWN == 7

\* the return codes of the collaborator: success, end-of-stream, any fault
Codes == {OK, _eof, NOK}
\* the result-type tags the server may report for a result
Tags == {nothing, status, report, row, cursor}

Conns == 1..NConns

VARIABLES
    global_is_initialised, \* set once by init()
    conns,      \* Connection objects and the history of their session handle
    results,    \* Result objects, one per resource the server handed back
    resources,  \* collaborator side of each result resource
    cursors,    \* Cursor objects, in order of creation
    last,       \* the last call: operation, object, outcome, collaborator calls
    therow,     \* a Row object and the row buffer it points to
    out,        \* what the last call on the Row returned
    handles,    \* Connections and Cursors that threads close without locking
    threads     \* each thread's place inside Close

vars == <<global_is_initialised, conns, results, resources, cursors, last, therow, out,
          handles, threads>>

\* the handles and threads of the unlocked Close, which the calls of a single
\* caller do not touch
raceVars == <<handles, threads>>

\* the state of the Row, which no operation of the other handles touches
rowVars == <<therow, out>>

Abs(p) == IF p < 0 THEN -p ELSE p

\* one call to the collaborator: its name, its handle argument, its return code
Call(name, arg, rc) == <<name, arg, rc>>

Ret(op, obj, ret, msg, calls, pos) ==
    [op |-> op, obj |-> obj, ret |-> ret, msg |-> msg, calls |-> calls, pos |-> pos]

\* ------------------------------------------------------------- collaborator
\* nowdb_result_destroy(i): the resource is released
Release(R, i) == [R EXCEPT ![i].rel = @ + 1, ![i].relCalls = @ + 1]

\* nowdb_cursor_close(i) with reply rc: releases the resource iff rc is OK
CursorCloseReply(R, i, rc) ==
    [R EXCEPT ![i].rel = IF rc = OK THEN @ + 1 ELSE @,
              ![i].refused = IF rc = OK THEN @ ELSE @ + 1,
              ![i].relCalls = @ + 1]

\* nowdb_cursor_row(cc): the row buffer of the cursor, nil when it holds no row.
\* A row buffer of cursor i is the pointer -i: it belongs to the cursor resource.
nowdb_cursor_row(R, cc) ==
    IF cc = NIL THEN NIL
    ELSE IF R[cc].bufEnd >= 1 THEN -cc ELSE NIL

\* the resource the server hands back for a statement: tag t, a stream of n
\* rows of which the first b are in the first row buffer
NewResource(t, n, b) ==
    [rel |-> 0, relCalls |-> 0, refused |-> 0, N |-> n, bufEnd |-> b, pos |-> IF b = 0 THEN 0 ELSE 1]

\* the shapes of resource the server can hand back for tag t
Shapes(t) ==
    IF t = cursor
    THEN {NewResource(t, p[1], p[2]) :
             p \in {q \in (0..MaxRows) \X (0..MaxRows) : q[2] <= q[1]}}
    ELSE IF t = row THEN {NewResource(t, n, n) : n \in 1..MaxRows}
    ELSE {NewResource(t, 0, 0)}

\* nowdb_row_next(p): advance inside the row buffer p
nowdb_row_next(R, p) ==
    IF R[Abs(p)].pos < R[Abs(p)].bufEnd THEN OK ELSE _eof

\* ---------------------------------------------------------------- Init
\* a Row without a row buffer, and the outcome before any call on a Row
NoRow == [cr |-> NIL, buf |-> <<>>]
NoValue == [type |-> "nil", val |-> 0]
NoError == [type |-> "nil", what |-> ""]
NoOut == [t |-> NOTHING, v |-> NoValue, err |-> NoError, ok |-> TRUE]

NoConn == [made |-> FALSE, cc |-> NIL, closeCalls |-> 0, destroyCalls |-> 0, closed |-> FALSE]

Init ==
    /\ global_is_initialised \in BOOLEAN
    /\ conns = [c \in Conns |-> NoConn]
    /\ results = <<>>
    /\ resources = <<>>
    /\ cursors = <<>>
    /\ last = Ret("init", 0, "ok", "", <<>>, 0)
    /\ therow = NoRow
    /\ out = NoOut
    /\ handles = <<>>
    /\ threads = <<>>

\* ---------------------------------------------------------------- Connection
\* Connect: the new Connection holds the session handle c
Connect(c) ==
    /\ ~conns[c].made
    /\ UNCHANGED <<global_is_initialised, results, resources, cursors>>
    /\ UNCHANGED <<rowVars, raceVars>>
    /\ IF ~global_is_initialised
       THEN /\ last' = Ret("Connect", c, "ClientError", "Client is not initialised", <<>>, 0)
            /\ UNCHANGED conns
       ELSE \E rc \in {OK, NOK} :
              IF rc # OK
              THEN /\ last' = Ret("Connect", c, "ServerError", "rc",
                                  <<Call("nowdb_connect", NIL, rc)>>, 0)
                   /\ UNCHANGED conns
              ELSE /\ conns' = [conns EXCEPT ![c].made = TRUE, ![c].cc = c]
                   /\ last' = Ret("Connect", c, "ok", "", <<Call("nowdb_connect", NIL, rc)>>, 0)

\* Close, failure branch without the forced destroy of the local session
CloseFailedLeaks(k, rc) ==
    [k |-> [k EXCEPT !.closeCalls = @ + 1, !.cc = NIL, !.closed = TRUE],
     calls |-> <<Call("nowdb_connection_close", k.cc, rc)>>]

\* the failure branch of Close: force-destroy the local session, clear the handle
CloseFailed(k, rc) ==
    [k |-> [k EXCEPT !.closeCalls = @ + 1, !.destroyCalls = @ + 1,
                     !.cc = NIL, !.closed = TRUE],
     calls |-> <<Call("nowdb_connection_close", k.cc, rc),
                 Call("nowdb_connection_destroy", k.cc, OK)>>]

\* the success branch of Close: clear the handle
CloseSucceeded(k, rc) ==
    [k |-> [k EXCEPT !.closeCalls = @ + 1, !.cc = NIL, !.closed = TRUE],
     calls |-> <<Call("nowdb_connection_close", k.cc, rc)>>]

\* Close without the nil check
CloseNeverNoop(k) == FALSE

\* the nil check at the head of Close
CloseIsNoop(k) == k.cc = NIL

ConnClose(c) ==
    /\ conns[c].made
    /\ UNCHANGED <<global_is_initialised, results, resources, cursors>>
    /\ UNCHANGED <<rowVars, raceVars>>
    /\ IF CloseIsNoop(conns[c])
       THEN /\ conns' = [conns EXCEPT ![c].closed = TRUE]
            /\ last' = Ret("Close", c, "ok", "", <<>>, 0)
       ELSE \E rc \in {OK, NOK} :
              IF rc # OK
              THEN LET f == CloseFailed(conns[c], rc) IN
                   /\ conns' = [conns EXCEPT ![c] = f.k]
                   /\ last' = Ret("Close", c, "ServerError", "rc", f.calls, 0)
              ELSE LET g == CloseSucceeded(conns[c], rc) IN
                   /\ conns' = [conns EXCEPT ![c] = g.k]
                   /\ last' = Ret("Close", c, "ok", "", g.calls, 0)

\* ---------------------------------------------------------------- Result
\* Destroy on the Result at index i of rs: releases the resource if still owned
DestroyOp(rs, R, i) ==
    IF rs[i].cs = NIL
    THEN [rs |-> rs, R |-> R, calls |-> <<>>]
    ELSE [rs |-> [rs EXCEPT ![i].cs = NIL],
          R |-> Release(R, rs[i].cs),
          calls |-> <<Call("nowdb_result_destroy", rs[i].cs, OK)>>]

Destroy(i) ==
    /\ i \in 1..Len(results)
    /\ results[i].handed
    /\ LET d == DestroyOp(results, resources, i) IN
         /\ results' = d.rs
         /\ resources' = d.R
         /\ last' = Ret("Destroy", i, "ok", "", d.calls, 0)
    /\ UNCHANGED <<global_is_initialised, conns, cursors>>
    /\ UNCHANGED <<rowVars, raceVars>>

\* Execute on a non-ok status, returning the error without Destroy
ExecuteRejectLeaks(rs, R, i) == [rs |-> rs, R |-> R, calls |-> <<>>]

\* Execute, when the server reports a non-ok status for the new result i
ExecuteReject(rs, R, i) == DestroyOp(rs, R, i)

\* Execute on a Connection whose handle is cc, for the collaborator's reply:
\* return code rc, result cr (NIL or a resource of tag t and shape sh, whose
\* status is st)
ExecuteOp(cc, rc, cr, t, sh, st) ==
    LET sent == <<Call("nowdb_exec_statement", cc, rc)>> IN
    IF rc # OK \/ cr = NIL
    THEN [rs |-> results, R |-> resources, ret |-> "ServerError", new |-> 0, calls |-> sent]
    ELSE LET rs1 == Append(results, [cs |-> cr, t |-> t, handed |-> FALSE, opens |-> 0])
             R1 == Append(resources, sh)
         IN IF st # OK
            THEN LET d == ExecuteReject(rs1, R1, cr) IN
                 [rs |-> d.rs, R |-> d.R, ret |-> "ServerError", new |-> 0,
                  calls |-> sent \o <<Call("nowdb_result_type", cr, t),
                                      Call("nowdb_result_status", cr, st),
                                      Call("nowdb_result_errcode", cr, st),
                                      Call("nowdb_result_details", cr, OK)>> \o d.calls]
            ELSE [rs |-> [rs1 EXCEPT ![cr].handed = TRUE], R |-> R1, ret |-> "Result",
                  new |-> cr,
                  calls |-> sent \o <<Call("nowdb_result_type", cr, t),
                                      Call("nowdb_result_status", cr, st)>>]

\* the replies nowdb_exec_statement can give on handle cc: the return code
\* rc and the result cr, NIL or a new resource of tag t and shape sh whose
\* status is st.  A nil handle is rejected; a failed submission hands back no
\* result.
ExecReplies(cc) ==
    LET none == NewResource(nothing, 0, 0)
        fail == [rc |-> NOK, cr |-> NIL, t |-> nothing, sh |-> none, st |-> OK]
    IN IF cc = NIL THEN {fail}
       ELSE {fail, [fail EXCEPT !.rc = OK]} \cup
            (IF Len(results) < MaxResults
             THEN UNION {{[rc |-> OK, cr |-> Len(results) + 1, t |-> t, sh |-> sh, st |-> st] :
                             sh \in Shapes(t), st \in {OK, NOK}} : t \in Tags}
             ELSE {})

Execute(c) ==
    /\ conns[c].made
    /\ \E rep \in ExecReplies(conns[c].cc) :
         LET e == ExecuteOp(conns[c].cc, rep.rc, rep.cr, rep.t, rep.sh, rep.st) IN
           /\ results' = e.rs
           /\ resources' = e.R
           /\ last' = Ret("Execute", c, e.ret, "", e.calls, e.new)
    /\ UNCHANGED <<global_is_initialised, conns, cursors>>
    /\ UNCHANGED <<rowVars, raceVars>>

\* Use: Execute "use db", then Destroy the Result it returned
Use(c) ==
    /\ conns[c].made
    /\ \E rep \in ExecReplies(conns[c].cc) :
         LET e == ExecuteOp(conns[c].cc, rep.rc, rep.cr, rep.t, rep.sh, rep.st) IN
           IF e.ret # "Result"
           THEN /\ results' = e.rs
                /\ resources' = e.R
                /\ last' = Ret("Use", c, e.ret, "", e.calls, 0)
           ELSE LET d == DestroyOp(e.rs, e.R, e.new) IN
                /\ results' = [d.rs EXCEPT ![e.new].handed = FALSE]
                /\ resources' = d.R
                /\ last' = Ret("Use", c, "ok", "", e.calls \o d.calls, 0)
    /\ UNCHANGED <<global_is_initialised, conns, cursors>>
    /\ UNCHANGED <<rowVars, raceVars>>

\* a kind check that lets every tagged result through
IsDataLoose(t) == t # nothing

\* the kind check at the head of Open
IsData(t) == t = cursor \/ t = row

\* an Open that leaves the resource with the Result as well
OpenHandOffKeeps(r) == [r EXCEPT !.opens = @ + 1]

\* the hand-off at the end of a successful Open: the Result gives up its resource
OpenHandOff(r) == [r EXCEPT !.cs = NIL, !.opens = @ + 1]

\* an Open that gives up the resource although the server refused the cursor
OpenFailedDrops(r) == [r EXCEPT !.cs = NIL]

\* the Result after the server refused to open the cursor: Open returns before
\* the hand-off
OpenFailed(r) == r

\* the Cursor Open returns; eof, closed and rows are history: whether a Fetch
\* returned EOF, whether Close was called, how many Rows Fetch has returned
NewCursor(cc, rw, i) ==
    [cc |-> cc, row |-> rw, first |-> TRUE, res |-> i, eof |-> FALSE, closed |-> FALSE,
     rows |-> 0]

Open(i) ==
    /\ i \in 1..Len(results)
    /\ results[i].handed
    /\ UNCHANGED <<global_is_initialised, conns, resources>>
    /\ UNCHANGED <<rowVars, raceVars>>
    /\ LET r == results[i] IN
       IF ~IsData(r.t)
       THEN /\ last' = Ret("Open", i, "ClientError", "not a cursor", <<>>, 0)
            /\ UNCHANGED <<results, cursors>>
       ELSE IF r.t = cursor
       THEN \E rc \in {OK, NOK} :
              IF rc # OK
              THEN /\ last' = Ret("Open", i, "ClientError", "rc",
                                  <<Call("nowdb_cursor_open", r.cs, rc)>>, 0)
                   /\ results' = [results EXCEPT ![i] = OpenFailed(@)]
                   /\ UNCHANGED cursors
              ELSE /\ Len(cursors) < MaxCursors
                   /\ cursors' = Append(cursors,
                          NewCursor(r.cs, nowdb_cursor_row(resources, r.cs), i))
                   /\ results' = [results EXCEPT ![i] = OpenHandOff(@)]
                   /\ last' = Ret("Open", i, "Cursor", "",
                                  <<Call("nowdb_cursor_open", r.cs, rc),
                                    Call("nowdb_cursor_row", r.cs, OK)>>, Len(cursors) + 1)
       ELSE /\ Len(cursors) < MaxCursors
            /\ cursors' = Append(cursors, NewCursor(NIL, r.cs, i))
            /\ results' = [results EXCEPT ![i] = OpenHandOff(@)]
            /\ last' = Ret("Open", i, "Cursor", "", <<>>, Len(cursors) + 1)

\* ---------------------------------------------------------------- Cursor
\* a Close that releases the row buffer whether or not a cursor resource exists
CloseRowAlways(c, R) ==
    IF c.row = NIL
    THEN [c |-> c, R |-> R, calls |-> <<>>]
    ELSE [c |-> [c EXCEPT !.row = NIL], R |-> Release(R, Abs(c.row)),
          calls |-> <<Call("nowdb_result_destroy", c.row, OK)>>]

\* first half of Close: the row buffer, released directly only without a cursor
CloseRow(c, R) ==
    IF c.row = NIL
    THEN [c |-> c, R |-> R, calls |-> <<>>]
    ELSE IF c.cc = NIL
    THEN [c |-> [c EXCEPT !.row = NIL], R |-> Release(R, Abs(c.row)),
          calls |-> <<Call("nowdb_result_destroy", c.row, OK)>>]
    ELSE [c |-> [c EXCEPT !.row = NIL], R |-> R, calls |-> <<>>]

\* a Close that keeps the pointer to the cursor resource it released
CloseCursorKeeps(c, R, rc) ==
    IF c.cc = NIL
    THEN [c |-> c, R |-> R, calls |-> <<>>]
    ELSE IF rc # OK
    THEN [c |-> c, R |-> Release(CursorCloseReply(R, c.cc, rc), c.cc),
          calls |-> <<Call("nowdb_cursor_close", c.cc, rc),
                      Call("nowdb_result_destroy", c.cc, OK)>>]
    ELSE [c |-> c, R |-> CursorCloseReply(R, c.cc, rc),
          calls |-> <<Call("nowdb_cursor_close", c.cc, rc)>>]

\* second half of Close: the cursor resource, closed on the server and, when
\* the server refuses (rc), destroyed locally
CloseCursor(c, R, rc) ==
    IF c.cc = NIL
    THEN [c |-> c, R |-> R, calls |-> <<>>]
    ELSE IF rc # OK
    THEN [c |-> [c EXCEPT !.cc = NIL],
          R |-> Release(CursorCloseReply(R, c.cc, rc), c.cc),
          calls |-> <<Call("nowdb_cursor_close", c.cc, rc), Call("nowdb_result_destroy", c.cc, OK)>>]
    ELSE [c |-> [c EXCEPT !.cc = NIL],
          R |-> CursorCloseReply(R, c.cc, rc),
          calls |-> <<Call("nowdb_cursor_close", c.cc, rc)>>]

CursorClose(k) ==
    /\ k \in 1..Len(cursors)
    /\ \E rc \in {OK, NOK} :
         LET a == CloseRow(cursors[k], resources)
             b == CloseCursor(a.c, a.R, rc)
         IN /\ cursors' = [cursors EXCEPT ![k] = [b.c EXCEPT !.closed = TRUE]]
            /\ resources' = b.R
            /\ last' = Ret("CursorClose", k, "ok", "", a.calls \o b.calls, 0)
    /\ UNCHANGED <<global_is_initialised, conns, results>>
    /\ UNCHANGED <<rowVars, raceVars>>

\* a Fetch that hands out the buffer of Open without looking whether there is one
FetchRowUnchecked(c, R) ==
    IF c.first
    THEN [c |-> [c EXCEPT !.first = FALSE], R |-> R, calls |-> <<>>,
          ret |-> "Row", pos |-> IF c.row = NIL THEN 0 ELSE R[Abs(c.row)].pos]
    ELSE IF c.row = NIL
    THEN [c |-> c, R |-> R, calls |-> <<>>, ret |-> "none", pos |-> 0]
    ELSE IF nowdb_row_next(R, c.row) # OK
    THEN IF c.cc = NIL
         THEN [c |-> [c EXCEPT !.row = NIL], R |-> Release(R, Abs(c.row)),
               calls |-> <<Call("nowdb_row_next", c.row, nowdb_row_next(R, c.row)),
                           Call("nowdb_result_destroy", c.row, OK)>>,
               ret |-> "none", pos |-> 0]
         ELSE [c |-> [c EXCEPT !.row = NIL], R |-> R,
               calls |-> <<Call("nowdb_row_next", c.row, nowdb_row_next(R, c.row))>>, ret |-> "none", pos |-> 0]
    ELSE [c |-> c, R |-> [R EXCEPT ![Abs(c.row)].pos = @ + 1],
          calls |-> <<Call("nowdb_row_next", c.row, nowdb_row_next(R, c.row))>>,
          ret |-> "Row", pos |-> R[Abs(c.row)].pos + 1]

\* first half of Fetch: the row buffer.  ret is "Row" when Fetch returns here,
\* "none" when it goes on to the cursor resource.
FetchRow(c, R) ==
    IF c.row = NIL
    THEN [c |-> c, R |-> R, calls |-> <<>>, ret |-> "none", pos |-> 0]
    ELSE IF c.first
    THEN [c |-> [c EXCEPT !.first = FALSE], R |-> R, calls |-> <<>>,
          ret |-> "Row", pos |-> R[Abs(c.row)].pos]
    ELSE IF nowdb_row_next(R, c.row) # OK
    THEN IF c.cc = NIL
         THEN [c |-> [c EXCEPT !.row = NIL], R |-> Release(R, Abs(c.row)),
               calls |-> <<Call("nowdb_row_next", c.row, nowdb_row_next(R, c.row)),
                           Call("nowdb_result_destroy", c.row, OK)>>,
               ret |-> "none", pos |-> 0]
         ELSE [c |-> [c EXCEPT !.row = NIL], R |-> R,
               calls |-> <<Call("nowdb_row_next", c.row, nowdb_row_next(R, c.row))>>, ret |-> "none", pos |-> 0]
    ELSE [c |-> c, R |-> [R EXCEPT ![Abs(c.row)].pos = @ + 1],
          calls |-> <<Call("nowdb_row_next", c.row, nowdb_row_next(R, c.row))>>,
          ret |-> "Row", pos |-> R[Abs(c.row)].pos + 1]

\* the replies the server can give to nowdb_cursor_fetch on cursor cc:
\* <<rc, ec, n>>, the return code, the error code of the reply when rc is OK,
\* and the number of rows of the new row buffer when both are OK.  A fault
\* can happen at any time; end-of-stream only when the stream has no row left.
FetchReplies(R, cc) ==
    {<<NOK, NOK, 0>>, <<OK, NOK, 0>>} \cup
    (IF R[cc].bufEnd = R[cc].N THEN {<<_eof, _eof, 0>>, <<OK, _eof, 0>>} ELSE {}) \cup
    {<<OK, OK, n>> : n \in 1..(R[cc].N - R[cc].bufEnd)}

\* a Fetch that hands back the current row together with a server error
FetchCursorRowWithError(c, R, rep) ==
    IF c.cc = NIL
    THEN [c |-> c, R |-> R, calls |-> <<>>, ret |-> "EOF", pos |-> 0]
    ELSE LET rc == IF rep[1] = OK THEN rep[2] ELSE rep[1]
             asked == <<Call("nowdb_cursor_fetch", c.cc, rep[1])>> \o
                      (IF rep[1] = OK THEN <<Call("nowdb_result_errcode", c.cc, rep[2])>> ELSE <<>>)
         IN IF rc # OK
            THEN IF rc = _eof
                 THEN [c |-> c, R |-> R, calls |-> asked, ret |-> "EOF", pos |-> 0]
                 ELSE [c |-> c, R |-> R,
                       calls |-> asked \o <<Call("nowdb_result_errcode", c.cc, rc),
                                            Call("nowdb_result_details", c.cc, OK)>>,
                       ret |-> "ServerError", pos |-> R[c.cc].pos]
            ELSE LET R1 == [R EXCEPT ![c.cc].pos = R[c.cc].bufEnd + 1,
                                     ![c.cc].bufEnd = @ + rep[3]]
                 IN [c |-> [c EXCEPT !.row = nowdb_cursor_row(R1, c.cc)], R |-> R1,
                     calls |-> asked \o <<Call("nowdb_cursor_row", c.cc, OK)>>,
                     ret |-> "Row", pos |-> R1[c.cc].pos]

\* a Fetch that reports the end of the stream like any other server error
FetchCursorEofIsError(c, R, rep) ==
    IF c.cc = NIL
    THEN [c |-> c, R |-> R, calls |-> <<>>, ret |-> "EOF", pos |-> 0]
    ELSE LET rc == IF rep[1] = OK THEN rep[2] ELSE rep[1]
             asked == <<Call("nowdb_cursor_fetch", c.cc, rep[1])>> \o
                      (IF rep[1] = OK THEN <<Call("nowdb_result_errcode", c.cc, rep[2])>> ELSE <<>>)
         IN IF rc # OK
            THEN [c |-> c, R |-> R,
                  calls |-> asked \o <<Call("nowdb_result_errcode", c.cc, rc),
                                       Call("nowdb_result_details", c.cc, OK)>>,
                  ret |-> "ServerError", pos |-> 0]
            ELSE LET R1 == [R EXCEPT ![c.cc].pos = R[c.cc].bufEnd + 1,
                                     ![c.cc].bufEnd = @ + rep[3]]
                 IN [c |-> [c EXCEPT !.row = nowdb_cursor_row(R1, c.cc)], R |-> R1,
                     calls |-> asked \o <<Call("nowdb_cursor_row", c.cc, OK)>>,
                     ret |-> "Row", pos |-> R1[c.cc].pos]

\* a Fetch that asks the collaborator even without a cursor resource
FetchCursorAsksNil(c, R, rep) ==
    LET rc == IF c.cc = NIL THEN NOK ELSE IF rep[1] = OK THEN rep[2] ELSE rep[1]
        asked == <<Call("nowdb_cursor_fetch", c.cc, IF c.cc = NIL THEN NOK ELSE rep[1])>> \o
                 (IF c.cc # NIL /\ rep[1] = OK
                  THEN <<Call("nowdb_result_errcode", c.cc, rep[2])>> ELSE <<>>)
    IN IF rc # OK
       THEN IF rc = _eof
            THEN [c |-> c, R |-> R, calls |-> asked, ret |-> "EOF", pos |-> 0]
            ELSE [c |-> c, R |-> R,
                  calls |-> asked \o <<Call("nowdb_result_errcode", c.cc, rc),
                                       Call("nowdb_result_details", c.cc, OK)>>,
                  ret |-> "ServerError", pos |-> 0]
       ELSE LET R1 == [R EXCEPT ![c.cc].pos = R[c.cc].bufEnd + 1,
                                ![c.cc].bufEnd = @ + rep[3]]
            IN [c |-> [c EXCEPT !.row = nowdb_cursor_row(R1, c.cc)], R |-> R1,
                calls |-> asked \o <<Call("nowdb_cursor_row", c.cc, OK)>>,
                ret |-> "Row", pos |-> R1[c.cc].pos]

\* second half of Fetch: the cursor resource, for the server's reply rep
FetchCursor(c, R, rep) ==
    IF c.cc = NIL
    THEN [c |-> c, R |-> R, calls |-> <<>>, ret |-> "EOF", pos |-> 0]
    ELSE LET rc == IF rep[1] = OK THEN rep[2] ELSE rep[1]
             asked == <<Call("nowdb_cursor_fetch", c.cc, rep[1])>> \o
                      (IF rep[1] = OK THEN <<Call("nowdb_result_errcode", c.cc, rep[2])>> ELSE <<>>)
         IN IF rc # OK
            THEN IF rc = _eof
                 THEN [c |-> c, R |-> R, calls |-> asked, ret |-> "EOF", pos |-> 0]
                 ELSE [c |-> c, R |-> R,
                       calls |-> asked \o <<Call("nowdb_result_errcode", c.cc, rc),
                                            Call("nowdb_result_details", c.cc, OK)>>,
                       ret |-> "ServerError", pos |-> 0]
            ELSE LET R1 == [R EXCEPT ![c.cc].pos = R[c.cc].bufEnd + 1,
                                     ![c.cc].bufEnd = @ + rep[3]]
                 IN [c |-> [c EXCEPT !.row = nowdb_cursor_row(R1, c.cc)], R |-> R1,
                     calls |-> asked \o <<Call("nowdb_cursor_row", c.cc, OK)>>,
                     ret |-> "Row", pos |-> R1[c.cc].pos]

Fetch(k) ==
    /\ k \in 1..Len(cursors)
    /\ LET a == FetchRow(cursors[k], resources) IN
         IF a.ret = "Row"
         THEN /\ cursors' = [cursors EXCEPT ![k] = [a.c EXCEPT !.rows = @ + 1]]
              /\ resources' = a.R
              /\ last' = Ret("Fetch", k, "Row", "", a.calls, a.pos)
         ELSE \E rep \in (IF a.c.cc = NIL THEN {<<OK, OK, 0>>}
                          ELSE FetchReplies(a.R, a.c.cc)) :
                LET b == FetchCursor(a.c, a.R, rep) IN
                  /\ cursors' = [cursors EXCEPT
                                   ![k] = [b.c EXCEPT !.eof = @ \/ b.ret = "EOF",
                                                      !.rows = IF b.ret = "Row" THEN @ + 1 ELSE @]]
                  /\ resources' = b.R
                  /\ last' = Ret("Fetch", k, b.ret, "", a.calls \o b.calls, b.pos)
    /\ UNCHANGED <<global_is_initialised, conns, results>>
    /\ UNCHANGED <<rowVars, raceVars>>

\* ---------------------------------------------------------------- Row
\* the type indicators the server may put on a field
FieldTags == {NOTHING, TEXT, DATE, TIME, FLOAT, INT, UINT, BOOL, UNKNOWN}

\* the fields of a row buffer: a type indicator and the bytes of the value
BufFields == [t : FieldTags, v : 0..MaxPayload]

\* the Rows a caller may hold: without a row buffer, or on a row buffer of up
\* to MaxFields fields
Rows ==
    {NoRow} \cup
    {[cr |-> 1, buf |-> b] : b \in UNION {[1..n -> BufFields] : n \in 0..MaxFields}}

\* the indexes a caller may ask for: in range, below and above
Indexes == (-1)..MaxFields

newTypeError(s) == [type |-> "TypeError", what |-> s]

NULL == newTypeError("NULL")

\* a call that dereferences a nil pointer: the process faults
Fault == [t |-> NOTHING, v |-> NoValue, err |-> NoError, ok |-> FALSE, calls |-> <<>>]

\* nowdb_row_count(cr): the number of fields of the row buffer
nowdb_row_count(r) == Len(r.buf)

\* nowdb_row_field(cr, idx, &t): the value and the type indicator of field idx;
\* out of range it returns nil and leaves t as it was, zero
nowdb_row_field(r, idx) ==
    IF r.cr = NIL THEN Fault
    ELSE IF idx \in 0..(Len(r.buf) - 1)
    THEN [t |-> r.buf[idx + 1].t, v |-> r.buf[idx + 1].v, ok |-> TRUE]
    ELSE [t |-> NOTHING, v |-> NIL, ok |-> TRUE]

Count(r) ==
    IF r.cr = NIL
    THEN [t |-> NOTHING, v |-> [type |-> "int", val |-> 0], err |-> NoError, ok |-> TRUE,
          calls |-> <<>>]
    ELSE [t |-> NOTHING, v |-> [type |-> "int", val |-> nowdb_row_count(r)], err |-> NoError,
          ok |-> TRUE, calls |-> <<Call("nowdb_row_count", r.cr, OK)>>]

\* the switch of Field: the Go value for the type indicator f.t and the bytes f.v
FieldValue(r, f) ==
    LET asked == <<Call("nowdb_row_field", r.cr, OK)>>
        Val(ty, x) == [t |-> f.t, v |-> [type |-> ty, val |-> x], err |-> NoError,
                       ok |-> TRUE, calls |-> asked]
    IN IF ~f.ok THEN Fault
       ELSE IF f.t = NOTHING
       THEN [t |-> NOTHING, v |-> NoValue, err |-> NoError, ok |-> TRUE, calls |-> asked]
       ELSE IF f.t = TEXT THEN Val("string", f.v)
       ELSE IF f.t \in {DATE, TIME, INT} THEN Val("int64", f.v)
       ELSE IF f.t = UINT THEN Val("uint64", f.v)
       ELSE IF f.t = FLOAT THEN Val("float64", f.v)
       ELSE IF f.t = BOOL THEN Val("bool", IF f.v = 0 THEN 0 ELSE 1)
       ELSE [t |-> NOTHING, v |-> NoValue, err |-> NoError, ok |-> TRUE, calls |-> asked]

\* a Field that asks the collaborator without looking at the row buffer
FieldUnchecked(r, idx) == FieldValue(r, nowdb_row_field(r, idx))

Field(r, idx) ==
    IF r.cr = NIL
    THEN [t |-> NOTHING, v |-> NoValue, err |-> NoError, ok |-> TRUE, calls |-> <<>>]
    ELSE FieldValue(r, nowdb_row_field(r, idx))

\* the tail of a typed accessor: the null check, the type check with its error
\* text, the type assertion v.(ty); zero is the zero value returned with an error
Typed(f, tags, what, ty) ==
    LET zero == [type |-> ty, val |-> 0] IN
    IF ~f.ok THEN Fault
    ELSE IF f.t = NOTHING THEN [f EXCEPT !.t = NOTHING, !.v = zero, !.err = NULL]
    ELSE IF f.t \notin tags THEN [f EXCEPT !.t = NOTHING, !.v = zero, !.err = newTypeError(what)]
    ELSE IF f.v.type # ty THEN Fault
    ELSE [f EXCEPT !.t = NOTHING]

String(r, idx) == Typed(Field(r, idx), {TEXT}, "not a string", "string")

intValue(r, idx, isTime) ==
    IF isTime
    THEN Typed(Field(r, idx), {TIME, DATE, INT}, "not a time value", "int64")
    ELSE Typed(Field(r, idx), {INT}, "not an int value", "int64")

Time(r, idx) == intValue(r, idx, TRUE)

\* Row.Int
RowInt(r, idx) == intValue(r, idx, FALSE)

UInt(r, idx) == Typed(Field(r, idx), {UINT}, "not an uint value", "uint64")

Float(r, idx) == Typed(Field(r, idx), {FLOAT}, "not a float value", "float64")

Bool(r, idx) == Typed(Field(r, idx), {BOOL}, "not a bool value", "bool")

\* a call op on the Row with index idx that returns o
RowCall(op, idx, o) ==
    /\ out' = [t |-> o.t, v |-> o.v, err |-> o.err, ok |-> o.ok]
    /\ last' = Ret(op, idx,
                   IF ~o.ok THEN "fault" ELSE IF o.err = NoError THEN "ok" ELSE o.err.type,
                   o.err.what, o.calls, 0)

\* what no call on a Row changes: the Row itself and the other handles
rowFrame == <<global_is_initialised, conns, results, resources, cursors, therow, raceVars>>

CallCount ==
    /\ RowCall("Count", 0, Count(therow))
    /\ UNCHANGED rowFrame

CallField(idx) ==
    /\ RowCall("Field", idx, Field(therow, idx))
    /\ UNCHANGED rowFrame

CallString(idx) ==
    /\ RowCall("String", idx, String(therow, idx))
    /\ UNCHANGED rowFrame

CallTime(idx) ==
    /\ RowCall("Time", idx, Time(therow, idx))
    /\ UNCHANGED rowFrame

CallInt(idx) ==
    /\ RowCall("Int", idx, RowInt(therow, idx))
    /\ UNCHANGED rowFrame

CallUInt(idx) ==
    /\ RowCall("UInt", idx, UInt(therow, idx))
    /\ UNCHANGED rowFrame

CallFloat(idx) ==
    /\ RowCall("Float", idx, Float(therow, idx))
    /\ UNCHANGED rowFrame

CallBool(idx) ==
    /\ RowCall("Bool", idx, Bool(therow, idx))
    /\ UNCHANGED rowFrame

\* ------------------------------------------------- Close without locking
\* Close of Connection and of Cursor as the steps of a thread: every read or
\* write of a field of the handle and every call of the collaborator is one
\* step, and the steps of the threads interleave.
Threads == 1..NThreads

\* every thread has a handle of its own, and all threads share one more
Shared == NThreads + 1
Handles == 1..Shared

\* the handles a thread may be given: a Connection, a Cursor on a cursor
\* resource with its row buffer, a Cursor on a bare row buffer; rel counts the
\* releases of the resource behind the handle
NewHandles(h) ==
    {[kind |-> "Connection", cc |-> h, row |-> NIL, rel |-> 0],
     [kind |-> "Cursor", cc |-> h, row |-> -h, rel |-> 0],
     [kind |-> "Cursor", cc |-> NIL, row |-> h, rel |-> 0]}

Idle == [pc |-> "idle", h |-> 0, p |-> NIL]

\* a collaborator call that releases what arg points to
Freed(H, h, arg) == IF arg = NIL THEN H ELSE [H EXCEPT ![h].rel = @ + 1]

\* the pointer a step passes on: the one the thread read at its check, or the
\* field read again
Args(t, field) == {threads[t].p, field}

At(t, pc) == threads[t].pc = pc

Goto(t, pc) == threads' = [threads EXCEPT ![t].pc = pc]

raceFrame == <<global_is_initialised, conns, results, resources, cursors, last, rowVars>>

\* a Close that leaves the pointer in the handle
ClearedKeeps(hd) == hd

\* the end of Close: c.cc = nil
Cleared(hd) == [hd EXCEPT !.cc = NIL]

\* the nil check: if c.cc == nil { return nil }
NilCheck(p) == p = NIL

\* Connection.Close: the nil check
ConnCloseCheck(t, h) ==
    /\ At(t, "idle") /\ h \in {t, Shared} /\ handles[h].kind = "Connection"
    /\ IF NilCheck(handles[h].cc)
       THEN UNCHANGED threads
       ELSE threads' = [threads EXCEPT ![t] = [pc |-> "close", h |-> h, p |-> handles[h].cc]]
    /\ UNCHANGED <<handles, raceFrame>>

\* Connection.Close: rc := nowdb_connection_close(c.cc)
ConnCloseCall(t) ==
    /\ At(t, "close")
    /\ \E arg \in Args(t, handles[threads[t].h].cc), rc \in {OK, NOK} :
         /\ handles' = IF rc = OK THEN Freed(handles, threads[t].h, arg) ELSE handles
         /\ Goto(t, IF rc # OK THEN "destroy" ELSE "clear")
    /\ UNCHANGED raceFrame

\* Connection.Close: nowdb_connection_destroy(c.cc)
ConnCloseDestroy(t) ==
    /\ At(t, "destroy")
    /\ \E arg \in Args(t, handles[threads[t].h].cc) : handles' = Freed(handles, threads[t].h, arg)
    /\ Goto(t, "clear")
    /\ UNCHANGED raceFrame

\* Connection.Close: c.cc = nil, return
ConnCloseClear(t) ==
    /\ At(t, "clear")
    /\ handles' = [handles EXCEPT ![threads[t].h] = Cleared(@)]
    /\ threads' = [threads EXCEPT ![t] = Idle]
    /\ UNCHANGED raceFrame

\* Cursor.Close: if c.row != nil
CurCloseRow(t, h) ==
    /\ At(t, "idle") /\ h \in {t, Shared} /\ handles[h].kind = "Cursor"
    /\ threads' = [threads EXCEPT ![t] =
                     [pc |-> IF handles[h].row # NIL THEN "rowowner" ELSE "cc",
                      h |-> h, p |-> handles[h].row]]
    /\ UNCHANGED <<handles, raceFrame>>

\* Cursor.Close: if c.cc == nil
CurCloseRowOwner(t) ==
    /\ At(t, "rowowner")
    /\ Goto(t, IF handles[threads[t].h].cc = NIL THEN "rowdestroy" ELSE "rowclear")
    /\ UNCHANGED <<handles, raceFrame>>

\* Cursor.Close: nowdb_result_destroy(c.row)
CurCloseRowDestroy(t) ==
    /\ At(t, "rowdestroy")
    /\ \E arg \in Args(t, handles[threads[t].h].row) : handles' = Freed(handles, threads[t].h, arg)
    /\ Goto(t, "rowclear")
    /\ UNCHANGED raceFrame

\* Cursor.Close: c.row = nil
CurCloseRowClear(t) ==
    /\ At(t, "rowclear")
    /\ handles' = [handles EXCEPT ![threads[t].h].row = NIL]
    /\ Goto(t, "cc")
    /\ UNCHANGED raceFrame

\* Cursor.Close: if c.cc != nil
CurCloseCc(t) ==
    /\ At(t, "cc")
    /\ IF NilCheck(handles[threads[t].h].cc)
       THEN threads' = [threads EXCEPT ![t] = Idle]
       ELSE threads' = [threads EXCEPT ![t].pc = "ccclose", ![t].p = handles[threads[t].h].cc]
    /\ UNCHANGED <<handles, raceFrame>>

\* Cursor.Close: rc := nowdb_cursor_close(c.cc)
CurCloseCall(t) ==
    /\ At(t, "ccclose")
    /\ \E arg \in Args(t, handles[threads[t].h].cc), rc \in {OK, NOK} :
         /\ handles' = IF rc = OK THEN Freed(handles, threads[t].h, arg) ELSE handles
         /\ Goto(t, IF rc # OK THEN "ccdestroy" ELSE "ccclear")
    /\ UNCHANGED raceFrame

\* Cursor.Close: nowdb_result_destroy(c.cc)
CurCloseDestroy(t) ==
    /\ At(t, "ccdestroy")
    /\ \E arg \in Args(t, handles[threads[t].h].cc) : handles' = Freed(handles, threads[t].h, arg)
    /\ Goto(t, "ccclear")
    /\ UNCHANGED raceFrame

\* Cursor.Close: c.cc = nil, return
CurCloseClear(t) ==
    /\ At(t, "ccclear")
    /\ handles' = [handles EXCEPT ![threads[t].h] = Cleared(@)]
    /\ threads' = [threads EXCEPT ![t] = Idle]
    /\ UNCHANGED raceFrame

Next == \/ \E c \in Conns : Connect(c)
        \/ \E c \in Conns : Execute(c)
        \/ \E c \in Conns : Use(c)
        \/ \E i \in 1..MaxResults : Destroy(i)
        \/ \E i \in 1..MaxResults : Open(i)
        \/ \E k \in 1..MaxCursors : Fetch(k)
        \/ \E k \in 1..MaxCursors : CursorClose(k)
        \/ \E c \in Conns : ConnClose(c)

Spec == Init /\ [][Next]_vars

\* the session protocol: the operations of Connection
NextConn == \/ \E c \in Conns : Connect(c)
            \/ \E c \in Conns : ConnClose(c)
            \/ \E c \in Conns : Execute(c)
            \/ \E c \in Conns : Use(c)

SpecConn == Init /\ [][NextConn]_vars

\* the result protocol: Execute on connected sessions and the operations of
\* Result and Cursor
InitData ==
    /\ global_is_initialised = TRUE
    /\ conns = [c \in Conns |-> [NoConn EXCEPT !.made = TRUE, !.cc = c]]
    /\ results = <<>>
    /\ resources = <<>>
    /\ cursors = <<>>
    /\ last = Ret("Connect", NConns, "ok", "", <<Call("nowdb_connect", NIL, OK)>>, 0)
    /\ therow = NoRow
    /\ out = NoOut
    /\ handles = <<>>
    /\ threads = <<>>

NextData == \/ \E c \in Conns : Execute(c)
            \/ \E i \in 1..MaxResults : Destroy(i)
            \/ \E i \in 1..MaxResults : Open(i)
            \/ \E k \in 1..MaxCursors : Fetch(k)
            \/ \E k \in 1..MaxCursors : CursorClose(k)

SpecData == InitData /\ [][NextData]_vars

\* the Row: any Row a caller may hold, and the calls on it
InitRow ==
    /\ global_is_initialised = TRUE
    /\ conns = [c \in Conns |-> NoConn]
    /\ results = <<>>
    /\ resources = <<>>
    /\ cursors = <<>>
    /\ last = Ret("makeRow", 0, "ok", "", <<>>, 0)
    /\ therow \in Rows
    /\ out = NoOut
    /\ handles = <<>>
    /\ threads = <<>>

NextRow == \/ CallCount
           \/ \E idx \in Indexes : CallField(idx)
           \/ \E idx \in Indexes : CallString(idx)
           \/ \E idx \in Indexes : CallTime(idx)
           \/ \E idx \in Indexes : CallInt(idx)
           \/ \E idx \in Indexes : CallUInt(idx)
           \/ \E idx \in Indexes : CallFloat(idx)
           \/ \E idx \in Indexes : CallBool(idx)

SpecRow == InitRow /\ [][NextRow]_vars

\* Close without locking: threads that close their own handle and a shared one
InitRace ==
    /\ global_is_initialised = TRUE
    /\ conns = [c \in Conns |-> NoConn]
    /\ results = <<>>
    /\ resources = <<>>
    /\ cursors = <<>>
    /\ last = Ret("init", 0, "ok", "", <<>>, 0)
    /\ therow = NoRow
    /\ out = NoOut
    /\ handles \in {H \in [Handles -> UNION {NewHandles(h) : h \in Handles}] :
                      \A h \in Handles : H[h] \in NewHandles(h)}
    /\ threads = [t \in Threads |-> Idle]

NextRace == \/ \E t \in Threads, h \in Handles : ConnCloseCheck(t, h)
            \/ \E t \in Threads : ConnCloseCall(t)
            \/ \E t \in Threads : ConnCloseDestroy(t)
            \/ \E t \in Threads : ConnCloseClear(t)
            \/ \E t \in Threads, h \in Handles : CurCloseRow(t, h)
            \/ \E t \in Threads : CurCloseRowOwner(t)
            \/ \E t \in Threads : CurCloseRowDestroy(t)
            \/ \E t \in Threads : CurCloseRowClear(t)
            \/ \E t \in Threads : CurCloseCc(t)
            \/ \E t \in Threads : CurCloseCall(t)
            \/ \E t \in Threads : CurCloseDestroy(t)
            \/ \E t \in Threads : CurCloseClear(t)

SpecRace == InitRace /\ [][NextRace]_vars

\* ================================================================== claims
\* the calls of cs named name whose return code is not OK
Refused(cs, name) == {j \in DOMAIN cs : cs[j][1] = name /\ cs[j][3] # OK}

\* the calls of cs named name
Made(cs, name) == {j \in DOMAIN cs : cs[j][1] = name}

\* the number of owners of resource i: the Result, a Cursor's cursor resource,
\* a Cursor's bare row buffer
Owners(i) ==
    (IF results[i].handed /\ results[i].cs = i THEN 1 ELSE 0)
    + Cardinality({k \in 1..Len(cursors) : cursors[k].cc = i})
    + Cardinality({k \in 1..Len(cursors) : cursors[k].row = i})

\* C1: once a Fetch on a Cursor has returned EOF, every later Fetch on that
\* Cursor returns EOF, never a ServerError and never a Row.
C1_EofIsFinal ==
    (last.op = "Fetch" /\ cursors[last.obj].eof) => last.ret = "EOF"

\* the successful Opens of the Result of the last call, before that call
OpensBefore == results[last.obj].opens - (IF last.ret = "Cursor" THEN 1 ELSE 0)

\* C2: for a Result of kind Cursor or SingleRow, every Open after a successful
\* Open fails with ClientError "not a cursor" and returns no Cursor.
C2_SecondOpenFails ==
    (last.op = "Open" /\ results[last.obj].t \in {cursor, row} /\ OpensBefore >= 1)
        => (last.ret = "ClientError" /\ last.msg = "not a cursor")

\* C3: after a successful Open the Result owns no resource (its pointer is
\* nil), and a Destroy on it makes no nowdb_result_destroy call.
C3_ResultEmptyAfterOpen ==
    \A i \in 1..Len(results) :
        results[i].opens >= 1 =>
            /\ results[i].cs = NIL
            /\ (last.op = "Destroy" /\ last.obj = i) => last.calls = <<>>

C3_Witness ==
    /\ last.op = "Destroy"
    /\ results[last.obj].opens >= 1
    /\ resources[last.obj].rel = 0

\* C4 as stated: every unreleased resource has exactly one owner and no
\* resource is passed to a release call more than once.
C4_OneReleaseCall ==
    \A i \in 1..Len(resources) :
        /\ resources[i].rel = 0 => Owners(i) = 1
        /\ resources[i].relCalls <= 1

\* C4 amended: every unreleased resource has exactly one owner and no resource
\* is released more than once; a resource is passed to a second release call
\* only as the nowdb_result_destroy that follows a refused nowdb_cursor_close.
C4_OneOwnerOneRelease ==
    \A i \in 1..Len(resources) :
        /\ resources[i].rel = 0 => Owners(i) = 1
        /\ resources[i].rel <= 1
        /\ resources[i].refused <= 1
        /\ resources[i].relCalls <= 1 + resources[i].refused
        /\ resources[i].refused = 1 => results[i].t = cursor /\ results[i].opens >= 1

C4_Witness ==
    \E i \in 1..Len(resources) :
        /\ resources[i].refused = 1
        /\ resources[i].rel = 1
        /\ resources[i].relCalls = 2

\* C5: a Close on a Cursor leaves it with neither row buffer nor cursor
\* resource; it releases the row buffer directly only when there is no cursor
\* resource, and otherwise releases through the cursor resource only; a Close
\* on a Cursor already closed makes no call.
C5_CloseIdempotentComplete ==
    [][\A k \in 1..Len(cursors) :
         (last'.op = "CursorClose" /\ last'.obj = k) =>
            /\ cursors'[k].cc = NIL
            /\ cursors'[k].row = NIL
            /\ cursors[k].closed => last'.calls = <<>>
            /\ cursors[k].cc # NIL =>
                 /\ Made(last'.calls, "nowdb_cursor_close") = {1}
                 /\ \A j \in DOMAIN last'.calls : last'.calls[j][2] = cursors[k].cc
                 /\ Made(last'.calls, "nowdb_result_destroy") =
                      (IF Refused(last'.calls, "nowdb_cursor_close") # {} THEN {2} ELSE {})
            /\ cursors[k].cc = NIL =>
                 last'.calls = (IF cursors[k].row = NIL THEN <<>>
                                ELSE <<Call("nowdb_result_destroy", cursors[k].row, OK)>>)]_vars

C5_Witness ==
    /\ last.op = "CursorClose"
    /\ last.calls = <<>>
    /\ cursors[last.obj].cc = NIL
    /\ results[cursors[last.obj].res].t = cursor
    /\ results[cursors[last.obj].res].opens = 1
    /\ resources[cursors[last.obj].res].rel = 1

\* C6: a Close on a Connection that was closed before returns no error and
\* makes no nowdb_connection_close and no nowdb_connection_destroy call.
C6_SecondCloseNoop ==
    [][\A c \in Conns :
         (conns[c].closed /\ last'.op = "Close" /\ last'.obj = c) =>
            /\ last'.ret = "ok"
            /\ last'.calls = <<>>
            /\ conns'[c].closeCalls = conns[c].closeCalls
            /\ conns'[c].destroyCalls = conns[c].destroyCalls]_vars

C6_Witness ==
    /\ last.op = "Close"
    /\ last.calls = <<>>
    /\ conns[last.obj].closeCalls = 1
    /\ conns[last.obj].destroyCalls = 1

\* C7: when the server refuses to close the session, Close destroys the local
\* session once, clears the handle and returns a ServerError; after every
\* Close the Connection holds no session handle.
C7_FailedCloseForceDestroys ==
    /\ \A c \in Conns : conns[c].destroyCalls <= 1 /\ (conns[c].closed => conns[c].cc = NIL)
    /\ last.op = "Close" =>
         /\ conns[last.obj].cc = NIL
         /\ Refused(last.calls, "nowdb_connection_close") # {} =>
              /\ last.ret = "ServerError"
              /\ last.calls = <<Call("nowdb_connection_close", last.obj, NOK),
                                Call("nowdb_connection_destroy", last.obj, OK)>>
              /\ conns[last.obj].destroyCalls = 1
         /\ Refused(last.calls, "nowdb_connection_close") = {} =>
              /\ last.ret = "ok"
              /\ Made(last.calls, "nowdb_connection_destroy") = {}

C7_Witness ==
    /\ last.op = "Close"
    /\ last.ret = "ServerError"
    /\ conns[last.obj].destroyCalls = 1
    /\ conns[last.obj].cc = NIL

\* C8: once Close has completed on a Connection, no Execute or Use on it
\* reaches the collaborator with a nowdb_exec_statement call.
C8_NoCallAfterClose ==
    (last.op \in {"Execute", "Use"} /\ conns[last.obj].closed)
        => Made(last.calls, "nowdb_exec_statement") = {}

\* C9: Execute returns a Result or a ServerError, never both; when the
\* submission fails or the server reports a non-ok status it returns a
\* ServerError and no Result, and no resource is left unreleased and unowned.
C9_ResultXorError ==
    /\ \A i \in 1..Len(results) :
         ~results[i].handed => (resources[i].rel = 1 /\ results[i].cs = NIL)
    /\ last.op = "Execute" =>
         /\ last.ret \in {"Result", "ServerError"}
         /\ (last.ret = "ServerError") <=> (last.pos = 0)
         /\ (Refused(last.calls, "nowdb_exec_statement") # {}
             \/ Refused(last.calls, "nowdb_result_status") # {}) => last.ret = "ServerError"
         /\ last.ret = "Result" =>
              /\ results[last.pos].handed
              /\ results[last.pos].cs = last.pos
              /\ resources[last.pos].rel = 0

C9_Witness ==
    /\ last.op = "Execute"
    /\ last.ret = "ServerError"
    /\ Refused(last.calls, "nowdb_result_status") # {}
    /\ Made(last.calls, "nowdb_result_destroy") # {}
    /\ resources[Len(resources)].rel = 1

\* C10: on a Result of kind Status (tag status or report) Open fails with
\* ClientError, creates no Cursor and leaves the Result's resource with it;
\* Destroy releases the resource on the first call and does nothing afterwards.
C10_StatusResult ==
    [][\A i \in 1..Len(results) :
         (results[i].t \in {status, report} /\ results[i].handed) =>
            /\ (last'.op = "Open" /\ last'.obj = i) =>
                 /\ last'.ret = "ClientError"
                 /\ last'.calls = <<>>
                 /\ UNCHANGED <<results, resources, cursors>>
            /\ (last'.op = "Destroy" /\ last'.obj = i) =>
                 /\ results'[i].cs = NIL
                 /\ resources'[i].rel = 1
                 /\ resources'[i].relCalls = 1
                 /\ last'.calls = (IF results[i].cs = NIL THEN <<>>
                                   ELSE <<Call("nowdb_result_destroy", i, OK)>>)]_vars

C10_Witness ==
    /\ last.op = "Destroy"
    /\ last.calls = <<>>
    /\ results[last.obj].t \in {status, report}
    /\ resources[last.obj].rel = 1
\* C11: every Fetch returns either a Row (pos is the stream position of the
\* Row it returns, 0 when it returns no Row) or an error (EOF, ServerError),
\* never both and never neither.
C11_RowXorError ==
    last.op = "Fetch" =>
        \/ last.ret = "Row" /\ last.pos >= 1
        \/ last.ret \in {"EOF", "ServerError"} /\ last.pos = 0

C11_Witness ==
    /\ last.op = "Fetch" /\ last.ret = "Row" /\ last.pos >= 1
    /\ Made(last.calls, "nowdb_cursor_fetch") # {}

\* C12: on a Cursor over a stream of N >= 1 rows the j-th Row that Fetch
\* returns is the row at stream position j, so each position is returned once
\* and in order; when the collaborator reports the end of the stream to an
\* open Cursor, Fetch has returned all N Rows; and once every Cursor of a
\* Result is closed the resource of the Result is released.
C12_EachRowOnceInOrder ==
    /\ last.op = "Fetch" =>
          LET c == cursors[last.obj] IN
          /\ last.ret = "Row" => last.pos = c.rows
          /\ (last.ret = "EOF" /\ last.calls # <<>> /\ resources[c.res].N >= 1)
                 => c.rows = resources[c.res].N
    /\ \A i \in 1..Len(results) :
          LET ks == {k \in 1..Len(cursors) : cursors[k].res = i} IN
          (ks # {} /\ \A k \in ks : cursors[k].closed) => resources[i].rel = 1

\* the collaborator answered every call of cs with OK or end-of-stream
NoFault(cs) == \A j \in DOMAIN cs : cs[j][3] \in {OK, _eof} \/ cs[j][1] = "nowdb_result_type"

\* C13: for a Cursor-kind Result over a stream of zero rows, Open returns a
\* Cursor unless the collaborator refuses it, and no Fetch on that Cursor
\* returns a Row: Fetch returns EOF unless the collaborator reports a fault.
C13_EmptyStreamEof ==
    /\ (last.op = "Open" /\ results[last.obj].t = cursor /\ resources[last.obj].N = 0
           /\ NoFault(last.calls)) => last.ret = "Cursor"
    /\ (last.op = "Fetch" /\ resources[cursors[last.obj].res].N = 0) =>
          /\ last.ret # "Row"
          /\ NoFault(last.calls) => last.ret = "EOF"

C13_Witness ==
    /\ last.op = "Fetch" /\ last.ret = "EOF"
    /\ resources[cursors[last.obj].res].N = 0
    /\ cursors[last.obj].rows = 0 /\ ~cursors[last.obj].closed
    /\ Made(last.calls, "nowdb_cursor_fetch") # {}

\* the typed accessors, the type indicators each accepts, its type-mismatch text
Accessors == {"String", "Time", "Int", "UInt", "Float", "Bool"}

Accepts(op) ==
    CASE op = "String" -> {TEXT}
      [] op = "Time" -> {DATE, TIME, INT}
      [] op = "Int" -> {INT}
      [] op = "UInt" -> {UINT}
      [] op = "Float" -> {FLOAT}
      [] op = "Bool" -> {BOOL}

Mismatch(op) ==
    CASE op = "String" -> "not a string"
      [] op = "Time" -> "not a time value"
      [] op = "Int" -> "not an int value"
      [] op = "UInt" -> "not an uint value"
      [] op = "Float" -> "not a float value"
      [] op = "Bool" -> "not a bool value"

\* C14: a typed accessor on a field tagged absent fails with the null-value
\* error, whose kind is not the kind of the type-mismatch error; on a field
\* with another tag than it accepts it fails with its type-mismatch error; on
\* a field with a tag it accepts (Time: date, time, integer; Int: integer
\* only) it returns the value.
C14_NullIsItsOwnKind ==
    (last.op \in Accessors /\ last.obj \in 0..(Len(therow.buf) - 1)) =>
        LET t == therow.buf[last.obj + 1].t IN
        /\ out.ok
        /\ t = NOTHING =>
             /\ out.err = NULL
             /\ out.err.type # newTypeError(Mismatch(last.op)).type
        /\ (t \notin {NOTHING, UNKNOWN} /\ t \notin Accepts(last.op)) =>
             out.err = newTypeError(Mismatch(last.op))
        /\ t \in Accepts(last.op) => out.err = NoError

\* C15: Field with an index outside [0, Count()) returns NOTHING and a nil
\* value and does not fault, and Count is 0 on a Row without a row buffer.
C15_OutOfRangeIsNothing ==
    /\ (last.op = "Field" /\ last.obj \notin 0..(Count(therow).v.val - 1)) =>
          out.ok /\ out.t = NOTHING /\ out.v = NoValue
    /\ (last.op = "Count" /\ therow.cr = NIL) => out.ok /\ out.v.val = 0

C15_Witness ==
    /\ last.op = "Field" /\ therow.cr = NIL /\ last.obj = 0
    /\ out.ok /\ out.t = NOTHING

\* the calls of cs that moved the cursor on to a next row
Advances(cs) ==
    {j \in DOMAIN cs : cs[j][1] \in {"nowdb_row_next", "nowdb_cursor_fetch"} /\ cs[j][3] = OK}

\* C16: a Fetch that returns a Row leaves the first marker consumed, and every
\* Fetch that returns a Row after the first one has advanced exactly once, so
\* that only the first Row can be the row buffer as Open or the collaborator
\* left it.
C16_FirstMarkerConsumed ==
    (last.op = "Fetch" /\ last.ret = "Row") =>
        /\ ~cursors[last.obj].first
        /\ cursors[last.obj].rows >= 2 => Cardinality(Advances(last.calls)) = 1

\* the code Fetch acts on after nowdb_cursor_fetch: its return code or, when
\* that is OK, the error code of the reply
FetchCode(cs) ==
    LET j == CHOOSE x \in Made(cs, "nowdb_cursor_fetch") : TRUE IN
    IF cs[j][3] # OK THEN cs[j][3] ELSE cs[j + 1][3]

\* C17: when nowdb_cursor_fetch reports the end-of-stream code Fetch returns
\* EOF; on any other code that is not OK it returns a ServerError, releases
\* nothing and keeps the cursor resource; and a Close on a Cursor that holds a
\* cursor resource leaves that resource released exactly once.
C17_FetchErrorKeepsCursor ==
    [][/\ (last'.op = "Fetch" /\ Made(last'.calls, "nowdb_cursor_fetch") # {}) =>
            LET k == last'.obj
                code == FetchCode(last'.calls)
            IN /\ code = _eof => last'.ret = "EOF"
               /\ code \notin {OK, _eof} =>
                    /\ last'.ret = "ServerError"
                    /\ resources' = resources
                    /\ cursors'[k].cc = cursors[k].cc /\ cursors[k].cc # NIL
       /\ (last'.op = "CursorClose" /\ cursors[last'.obj].cc # NIL) =>
            /\ resources[cursors[last'.obj].cc].rel = 0
            /\ resources'[cursors[last'.obj].cc].rel = 1
            /\ cursors'[last'.obj].cc = NIL
      ]_vars

C17_Witness ==
    /\ last.op = "Fetch" /\ last.ret = "ServerError"
    /\ Made(last.calls, "nowdb_cursor_fetch") # {}
    /\ cursors[last.obj].cc # NIL
    /\ resources[cursors[last.obj].cc].rel = 0

\* C18: a Fetch on a Cursor that holds neither a row buffer nor a cursor
\* resource returns EOF, calls the collaborator not at all, and leaves the
\* Cursor and every resource as they were.
C18_EmptyCursorFetchIsEof ==
    [][(/\ last'.op = "Fetch"
        /\ cursors[last'.obj].row = NIL
        /\ cursors[last'.obj].cc = NIL) =>
            /\ last'.ret = "EOF"
            /\ last'.calls = <<>>
            /\ cursors'[last'.obj].row = NIL
            /\ cursors'[last'.obj].cc = NIL
            /\ cursors'[last'.obj].first = cursors[last'.obj].first
            /\ resources' = resources
            /\ results' = results
      ]_vars

C18_Witness ==
    /\ last.op = "Fetch" /\ last.ret = "EOF" /\ last.calls = <<>>
    /\ cursors[last.obj].row = NIL /\ cursors[last.obj].cc = NIL
    /\ cursors[last.obj].rows >= 1

\* C20: when nowdb_cursor_open refuses, Open returns a ClientError and no
\* Cursor, the Result keeps its pointer, nothing is released, and a Destroy on
\* a Result that holds its resource releases that resource exactly once.
C20_FailedOpenKeepsResult ==
    [][/\ (last'.op = "Open" /\ Refused(last'.calls, "nowdb_cursor_open") # {}) =>
            /\ last'.ret = "ClientError"
            /\ cursors' = cursors
            /\ results'[last'.obj].cs = results[last'.obj].cs
            /\ resources' = resources
       /\ (last'.op = "Destroy" /\ results[last'.obj].cs # NIL) =>
            /\ resources[results[last'.obj].cs].rel = 0
            /\ resources'[results[last'.obj].cs].rel = 1
            /\ resources'[results[last'.obj].cs].relCalls = 1
            /\ results'[last'.obj].cs = NIL
      ]_vars

C20_Witness ==
    /\ last.op = "Open" /\ last.ret = "ClientError"
    /\ Refused(last.calls, "nowdb_cursor_open") # {}
    /\ results[last.obj].cs # NIL
    /\ resources[results[last.obj].cs].rel = 0

\* C19: a handle that only one thread closes is released at most once,
\* however the threads interleave; the handle that the threads share can be
\* released once per thread that passed the nil check, so twice and more.
C19_OwnHandleReleasedOnce ==
    /\ \A t \in Threads : handles[t].rel <= 1
    /\ handles[Shared].rel <= NThreads

C19_Witness ==
    /\ handles[Shared].kind = "Connection"
    /\ handles[Shared].rel = 2
    /\ \A t \in Threads : handles[t].rel <= 1

C19_WitnessCursor ==
    /\ handles[Shared].kind = "Cursor"
    /\ handles[Shared].rel = 2

====
